---------------------------- MODULE Spec2Model ----------------------------
(***************************************************************************)
(* CaptchaManager of BetterForward (src/src/utils/captcha.py): the         *)
(* challenge / verify engine, its failure counter and lock, and the        *)
(* verified-users ledger, over a key-value cache with per-key expiry and   *)
(* a relational store.                                                     *)
(*                                                                         *)
(* Time.  time.time() is a float number of seconds.  The model's clock     *)
(* `now` counts ticks, Res ticks to the second, so that int() of a time    *)
(* difference truncates as it does in the program.  Every handler reads    *)
(* the clock once; the one place where two reads of one handler are told   *)
(* apart is _increment_failure_count (see there).                          *)
(*                                                                         *)
(* Strings are sequences of one-character strings, so that strip(), int()  *)
(* and the comparison of codes are computed and not assumed.               *)
(***************************************************************************)
EXTENDS Integers, Sequences, FiniteSets, TLC

VARIABLES
    now,              \* time.time(), in ticks
    cache,            \* self.cache: key -> [value, expire_time]
    verified_users,   \* table verified_users: set of user_id
    captcha_history,  \* table captcha_history: sequence of rows
    last,             \* the last call, what it read and what it returned
    calls             \* the calls of _increment_failure_count in flight

vars == <<now, cache, verified_users, captcha_history, last, calls>>

----------------------------------------------------------------------------
(* Bounds of the model *)

\* clock ticks per second
Res == 2
\* rows the history table holds before callers stop passing a db handle
MaxHistory == 1
\* ticks that may pass between the two clock reads of _increment_failure_count
MaxSkew == 1
\* the value up to which the failure counter and a challenge's attempts are followed
MaxCount == 3
\* request-handling workers that run _increment_failure_count side by side
MaxWorkers == 2
\* values taken from each end of a random.randint range
MaxDraws == 1
\* rows of the history table that the statistics are taken over
MaxRows == 2

----------------------------------------------------------------------------
(* Configuration: class constants and the instance's copies *)

DEFAULT_MAX_ATTEMPTS == 3
DEFAULT_CAPTCHA_TIMEOUT == 120
DEFAULT_LOCKOUT_DURATION == 600
DEFAULT_LOCKOUT_AFTER_ATTEMPTS == 2
DEFAULT_MIN_ANSWER_TIME == 3
DEFAULT_MAX_ANSWER_TIME == 60
\* the literal ttl of the failure counter and of the verified entry
FAILURE_TTL == 3600
VERIFIED_TTL == 1800
\* the literal length of the statistics window, in seconds
STATS_WINDOW == 86400

max_attempts == DEFAULT_MAX_ATTEMPTS
captcha_timeout == DEFAULT_CAPTCHA_TIMEOUT
lockout_duration == DEFAULT_LOCKOUT_DURATION
lockout_after_attempts == DEFAULT_LOCKOUT_AFTER_ATTEMPTS
min_answer_time == DEFAULT_MIN_ANSWER_TIME
max_answer_time == DEFAULT_MAX_ANSWER_TIME

\* a number of seconds, in ticks
Sec(n) == n * Res

\* int(x) of a float x given in ticks: whole seconds, truncated towards zero
int_seconds(x) == IF x >= 0 THEN x \div Res ELSE 0 - ((0 - x) \div Res)

Max(a, b) == IF a >= b THEN a ELSE b
Min(a, b) == IF a <= b THEN a ELSE b

Users == {1}

Workers == 1..MaxWorkers

----------------------------------------------------------------------------
(* diskcache.Cache: get / set with expire / delete.  An entry is visible   *)
(* while expire_time > now.                                                *)

Key(prefix, user_id) == <<prefix, user_id>>

cache_has(c, key) == key \in DOMAIN c /\ c[key].expire_time > now

cache_get(c, key) == c[key].value

cache_set(c, key, value, expire) ==
    [k \in (DOMAIN c) \cup {key} |->
        IF k = key THEN [value |-> value, expire_time |-> now + Sec(expire)]
        ELSE c[k]]

cache_delete(c, key) == [k \in (DOMAIN c) \ {key} |-> c[k]]

\* the entries of c still visible at time t
cache_cull(c, t) == [k \in {x \in DOMAIN c : c[x].expire_time > t} |-> c[k]]


----------------------------------------------------------------------------
(* Strings: str.strip(), int(str), str(int) *)

Digits == <<"0", "1", "2", "3", "4", "5", "6", "7", "8", "9">>

is_digit(ch) == \E i \in 1..10 : Digits[i] = ch

digit_value(ch) == (CHOOSE i \in 1..10 : Digits[i] = ch) - 1

is_space(ch) == ch = " "

\* s without its leading whitespace
RECURSIVE lstrip(_)
lstrip(s) ==
    IF s # <<>> /\ is_space(Head(s)) THEN lstrip(Tail(s)) ELSE s

\* s without its trailing whitespace
RECURSIVE rstrip(_)
rstrip(s) ==
    IF s # <<>> /\ is_space(s[Len(s)]) THEN rstrip(SubSeq(s, 1, Len(s) - 1)) ELSE s

strip(s) == rstrip(lstrip(s))

\* the value of a string of digits, most significant first
RECURSIVE digits_value(_)
digits_value(s) ==
    IF s = <<>> THEN 0
    ELSE 10 * digits_value(SubSeq(s, 1, Len(s) - 1)) + digit_value(s[Len(s)])

all_digits(s) == s # <<>> /\ \A i \in 1..Len(s) : is_digit(s[i])

has_sign(s) == s # <<>> /\ Head(s) \in {"+", "-"}

\* int(s) raises ValueError unless s is an optionally signed string of digits
\* (surrounding whitespace allowed)
int_ok(s) ==
    LET t == strip(s) IN
        IF has_sign(t) THEN all_digits(Tail(t)) ELSE all_digits(t)

int_of(s) ==
    LET t == strip(s) IN
        IF has_sign(t)
        THEN (IF Head(t) = "-" THEN 0 - digits_value(Tail(t)) ELSE digits_value(Tail(t)))
        ELSE digits_value(t)

\* str(n) for n >= 0
RECURSIVE str_of(_)
str_of(n) ==
    IF n < 10 THEN <<Digits[n + 1]>>
    ELSE Append(str_of(n \div 10), Digits[(n % 10) + 1])

----------------------------------------------------------------------------
(* Failure counter and lock *)

\* _get_failure_count
_get_failure_count(c, user_id) ==
    IF cache_has(c, Key("captcha_failures_", user_id))
    THEN cache_get(c, Key("captcha_failures_", user_id))
    ELSE 0

\* the lock threshold test of _increment_failure_count
reaches_lockout(count) == count >= lockout_after_attempts

\* the counter written back without the increment
_increment_failure_count_lost(c, user_id, skew) ==
    cache_set(c, Key("captcha_failures_", user_id), _get_failure_count(c, user_id),
              FAILURE_TTL)

\* the lock stored for twice lockout_duration
_increment_failure_count_long(c, user_id, skew) ==
    LET count == _get_failure_count(c, user_id) + 1
        c1 == cache_set(c, Key("captcha_failures_", user_id), count, FAILURE_TTL)
    IN  IF reaches_lockout(count)
        THEN LET lock_until == now + 2 * Sec(lockout_duration)
                 key == Key("captcha_locked_", user_id)
             IN  [k \in (DOMAIN c1) \cup {key} |->
                    IF k = key
                    THEN [value |-> lock_until,
                          expire_time |-> now + skew + 2 * Sec(lockout_duration)]
                    ELSE c1[k]]
        ELSE c1

\* _increment_failure_count.  lock_until is computed from one clock read and
\* the entry's expiry from a later one inside cache.set: skew is the time
\* between the two, in ticks.
_increment_failure_count(c, user_id, skew) ==
    LET count == _get_failure_count(c, user_id) + 1
        c1 == cache_set(c, Key("captcha_failures_", user_id), count, FAILURE_TTL)
    IN  IF reaches_lockout(count)
        THEN LET lock_until == now + Sec(lockout_duration)
                 key == Key("captcha_locked_", user_id)
             IN  [k \in (DOMAIN c1) \cup {key} |->
                    IF k = key
                    THEN [value |-> lock_until,
                          expire_time |-> now + skew + Sec(lockout_duration)]
                    ELSE c1[k]]
        ELSE c1

\* the counter deleted and the lock forgotten
_reset_failure_count_counter_only(c, user_id) ==
    cache_delete(c, Key("captcha_failures_", user_id))

\* _reset_failure_count
_reset_failure_count(c, user_id) ==
    cache_delete(cache_delete(c, Key("captcha_failures_", user_id)),
                 Key("captcha_locked_", user_id))

\* the lock taken to hold for as long as its entry is visible
_is_user_locked_entry(c, user_id) == cache_has(c, Key("captcha_locked_", user_id))

\* _is_user_locked: the value it returns
_is_user_locked(c, user_id) ==
    /\ cache_has(c, Key("captcha_locked_", user_id))
    /\ now < cache_get(c, Key("captcha_locked_", user_id))

\* _is_user_locked: the cache it leaves (an expired lock is deleted)
_is_user_locked_cache(c, user_id) ==
    IF /\ cache_has(c, Key("captcha_locked_", user_id))
       /\ ~(now < cache_get(c, Key("captcha_locked_", user_id)))
    THEN cache_delete(c, Key("captcha_locked_", user_id))
    ELSE c

\* _get_lock_remaining_time
_get_lock_remaining_time(c, user_id) ==
    IF ~cache_has(c, Key("captcha_locked_", user_id)) THEN 0
    ELSE Max(0, int_seconds(cache_get(c, Key("captcha_locked_", user_id)) - now))

\* _get_remaining_attempts
_get_remaining_attempts(c, user_id) ==
    Max(0, max_attempts - _get_failure_count(c, user_id))

----------------------------------------------------------------------------
(* _generate_math_captcha.  A question is its format string (with x for    *)
(* the multiplication sign and / for the division sign) and the numbers    *)
(* formatted into it.                                                      *)

\* the tier chosen from the failure count
math_difficulty(failures) ==
    IF failures >= 2 THEN "extreme"
    ELSE IF failures >= 1 THEN "hard"
    ELSE "hard"

\* random.choice([...]) of each tier
operation_types(difficulty) ==
    CASE difficulty = "easy" -> {"+", "-"}
      [] difficulty = "medium" -> {"multiply", "complex_add"}
      [] difficulty = "hard" ->
            {"multiply_complex", "divide", "triple_op", "large_numbers"}
      [] difficulty = "extreme" ->
            {"complex_multiply", "complex_divide", "nested_ops", "large_multiply"}
      [] OTHER -> {"default"}

\* the random.randint(lo, hi) ranges of a template, in the order drawn; a
\* range whose upper end is an earlier draw is given by operands_ok
operand_ranges(operation_type) ==
    CASE operation_type = "+" -> <<(10..20), (10..20)>>
      [] operation_type = "-" -> <<(20..40), (5..40)>>
      [] operation_type = "multiply" -> <<(3..12), (3..12)>>
      [] operation_type = "complex_add" -> <<(10..25), (10..25), (5..15)>>
      [] operation_type = "multiply_complex" -> <<(11..19), (3..9)>>
      [] operation_type = "divide" -> <<(2..9), (5..15)>>
      [] operation_type = "triple_op" -> <<(10..20), (5..15), (3..10), (2..8)>>
      [] operation_type = "large_numbers" -> <<(50..100), (20..100)>>
      [] operation_type = "complex_multiply" -> <<(15..25), (4..12)>>
      [] operation_type = "complex_divide" -> <<(3..12), (8..20)>>
      [] operation_type = "nested_ops" -> <<(8..15), (5..12), (3..8), (2..6), (1..5)>>
      [] operation_type = "large_multiply" -> <<(20..30), (5..15)>>
      [] OTHER -> <<(15..25), (4..12)>>

\* the second operand of a subtraction drawn without regard to the first
operands_ok_unordered(operation_type, n) ==
    /\ Len(n) = Len(operand_ranges(operation_type))
    /\ \A i \in 1..Len(n) : n[i] \in operand_ranges(operation_type)[i]

\* n is a possible sequence of draws of the template
operands_ok(operation_type, n) ==
    /\ Len(n) = Len(operand_ranges(operation_type))
    /\ \A i \in 1..Len(n) : n[i] \in operand_ranges(operation_type)[i]
    /\ operation_type \in {"-", "large_numbers"} => n[2] <= n[1]

\* (question, answer) of a template for the draws n
math_template(operation_type, n) ==
    CASE operation_type = "+" ->
            [question |-> [format |-> "{} + {} = ?", args |-> <<n[1], n[2]>>],
             answer |-> n[1] + n[2]]
      [] operation_type = "-" ->
            [question |-> [format |-> "{} - {} = ?", args |-> <<n[1], n[2]>>],
             answer |-> n[1] - n[2]]
      [] operation_type = "complex_add" ->
            [question |-> [format |-> "{} + {} - {} = ?", args |-> <<n[1], n[2], n[3]>>],
             answer |-> n[1] + n[2] - n[3]]
      [] operation_type \in {"divide", "complex_divide"} ->
            [question |-> [format |-> "{} / {} = ?", args |-> <<n[1] * n[2], n[1]>>],
             answer |-> n[2]]
      [] operation_type = "triple_op" ->
            [question |-> [format |-> "({} + {}) x {} - {} = ?",
                           args |-> <<n[1], n[2], n[3], n[4]>>],
             answer |-> (n[1] + n[2]) * n[3] - n[4]]
      [] operation_type = "large_numbers" ->
            [question |-> [format |-> "{} - {} = ?", args |-> <<n[1], n[2]>>],
             answer |-> n[1] - n[2]]
      [] operation_type = "nested_ops" ->
            [question |-> [format |-> "(({} + {}) x {} - {}) / {} = ?",
                           args |-> <<n[1], n[2], n[3], n[4], n[5]>>],
             answer |-> ((n[1] + n[2]) * n[3] - n[4]) \div n[5]]
      [] OTHER ->
            [question |-> [format |-> "{} x {} = ?", args |-> <<n[1], n[2]>>],
             answer |-> n[1] * n[2]]

\* the difficulty strings of the match statement
Tiers == {"easy", "medium", "hard", "extreme"}

\* the MaxDraws least and the MaxDraws greatest values of a range
range_ends(range) ==
    { x \in range : \/ Cardinality({ y \in range : y < x }) < MaxDraws
                    \/ Cardinality({ y \in range : y > x }) < MaxDraws }

\* the sequences with one value of each range at the ends of it; a range that
\* is cut by an earlier draw is taken whole
RECURSIVE end_draws(_, _)
end_draws(operation_type, ranges) ==
    IF ranges = <<>> THEN { <<>> }
    ELSE LET i == Len(ranges)
             values == IF operation_type \in {"-", "large_numbers"} /\ i = 2
                       THEN ranges[i] ELSE range_ends(ranges[i])
         IN  { Append(n, x) : n \in end_draws(operation_type, SubSeq(ranges, 1, i - 1)),
                              x \in values }

\* the draws of a template that the model follows
Draws(operation_type) ==
    { n \in end_draws(operation_type, operand_ranges(operation_type)) :
        operands_ok(operation_type, n) }

\* the least value of each range: the draws the engine's model issues with
RECURSIVE least_draws(_)
least_draws(ranges) ==
    IF ranges = <<>> THEN <<>>
    ELSE <<CHOOSE x \in Head(ranges) : \A y \in Head(ranges) : x <= y>>
            \o least_draws(Tail(ranges))

\* _generate_math_captcha: the templates open to a user with this failure count
_generate_math_captcha(failures) == operation_types(math_difficulty(failures))

----------------------------------------------------------------------------
(* The history table *)

\* _log_verification: db is "None" (no handle passed), "ok", or "fails"
\* (the INSERT raises and the error is logged and swallowed)
_log_verification(h, user_id, db, success) ==
    IF db = "ok"
    THEN Append(h, [user_id |-> user_id,
                    success |-> IF success THEN 1 ELSE 0,
                    timestamp |-> int_seconds(now)])
    ELSE h

\* a row counted with every row one day old or younger
get_user_verification_stats_inclusive(h, user_id) ==
    LET rows == { i \in 1..Len(h) :
                    /\ h[i].user_id = user_id
                    /\ h[i].timestamp >= int_seconds(now) - STATS_WINDOW }
    IN  [total |-> Cardinality(rows),
         successful |-> Cardinality({ i \in rows : h[i].success = 1 }),
         failed |-> Cardinality({ i \in rows : h[i].success = 0 })]

\* get_user_verification_stats with a working db: the SELECT over the rows
\* WHERE user_id = ? AND timestamp > int(time.time()) - 86400, a NULL sum
\* read as 0
get_user_verification_stats(h, user_id) ==
    LET rows == { i \in 1..Len(h) :
                    /\ h[i].user_id = user_id
                    /\ h[i].timestamp > int_seconds(now) - STATS_WINDOW }
    IN  [total |-> Cardinality(rows),
         successful |-> Cardinality({ i \in rows : h[i].success = 1 }),
         failed |-> Cardinality({ i \in rows : h[i].success = 0 })]

----------------------------------------------------------------------------
(* generate_captcha *)

\* the codes _generate_image_captcha draws, of the many it can
ImageCodes == { <<"a", "B", "7", "k">>, <<"Q", "a", "B", "7", "k">> }

\* the tokens the button captcha draws, of the many it can
Tokens == { <<"t", "1">>, <<"t", "2">> }

\* None where generate_captcha returns no question
NoContent == [format |-> "None", args |-> <<>>]

\* what a call returns and leaves behind
Outcome(c, h, ret) == [cache |-> c, history |-> h, ret |-> ret]

\* the lock gate at the head of generate_captcha and verify_captcha:
\* _is_user_locked is true and the remaining whole seconds are > 0
lock_gate(c, user_id) ==
    _is_user_locked(c, user_id) /\ _get_lock_remaining_time(c, user_id) > 0

\* generate_captcha.  pick is what random draws: for "math" the template,
\* for "image" the code, for "button" the token.  rendered: the image was
\* generated; sent: the bot delivered the message.
generate_captcha(c0, user_id, captcha_type, pick, rendered, sent) ==
    LET c == _is_user_locked_cache(c0, user_id) IN
    IF lock_gate(c0, user_id)
    THEN [cache |-> c,
          ret |-> [content |-> NoContent, error |-> "You have failed too many times",
                   number |-> _get_lock_remaining_time(c0, user_id)]]
    ELSE CASE captcha_type = "math" ->
            LET qa == math_template(pick, least_draws(operand_ranges(pick)))
                captcha_data == [answer |-> qa.answer, created_at |-> now,
                                 attempts |-> 0, type |-> "math"]
            IN  [cache |-> cache_set(c, Key("captcha_", user_id), captcha_data,
                                     captcha_timeout),
                 ret |-> [content |-> qa.question, error |-> "None", number |-> 0]]
         [] captcha_type = "image" ->
            LET captcha_data == [answer |-> pick, created_at |-> now,
                                 attempts |-> 0, type |-> "image"]
                c1 == cache_set(c, Key("captcha_", user_id), captcha_data,
                                captcha_timeout)
            IN  IF ~rendered
                THEN [cache |-> c,
                      ret |-> [content |-> NoContent,
                               error |-> "Failed to generate captcha", number |-> 0]]
                ELSE IF ~sent
                THEN [cache |-> c1,
                      ret |-> [content |-> NoContent,
                               error |-> "Failed to generate captcha", number |-> 0]]
                ELSE [cache |-> c1,
                      ret |-> [content |-> NoContent, error |-> "None", number |-> 0]]
         [] OTHER ->
            LET button_data == [user_id |-> user_id, timestamp |-> int_seconds(now),
                                token |-> pick, created_at |-> now]
                c1 == cache_set(c, Key("button_captcha_", user_id), button_data,
                                captcha_timeout)
            IN  [cache |-> c1,
                 ret |-> [content |-> NoContent,
                          error |-> IF sent THEN "None" ELSE "raised", number |-> 0]]

----------------------------------------------------------------------------
(* verify_captcha *)

Reply(passed, message, n) == [passed |-> passed, message |-> message, number |-> n]

\* elapsed_time > self.captcha_timeout
is_timed_out(elapsed_time) == elapsed_time > Sec(captcha_timeout)

\* the floor set a second too low
is_too_fast_early(elapsed_time) == elapsed_time < Sec(min_answer_time - 1)

\* elapsed_time < self.min_answer_time
is_too_fast(elapsed_time) == elapsed_time < Sec(min_answer_time)

\* the ceiling taken from the wrong setting
is_too_slow_timeout(elapsed_time) == elapsed_time > Sec(captcha_timeout)

\* elapsed_time > self.max_answer_time
is_too_slow(elapsed_time) == elapsed_time > Sec(max_answer_time)

\* the budget taken to be spent one attempt later
attempts_exhausted_late(captcha_data) == captcha_data.attempts > max_attempts

\* attempts >= self.max_attempts
attempts_exhausted(captcha_data) == captcha_data.attempts >= max_attempts

\* the codes compared without regard to case
compare_answer_caseless(captcha_data, answer) ==
    LET user_answer == strip(answer)
        upper == <<"A", "B", "C", "D", "E", "F", "G", "H", "I", "J", "K", "L", "M",
                   "N", "O", "P", "Q", "R", "S", "T", "U", "V", "W", "X", "Y", "Z">>
        small == <<"a", "b", "c", "d", "e", "f", "g", "h", "i", "j", "k", "l", "m",
                   "n", "o", "p", "q", "r", "s", "t", "u", "v", "w", "x", "y", "z">>
        lower(s) == [i \in 1..Len(s) |->
                        IF \E j \in 1..26 : upper[j] = s[i]
                        THEN small[CHOOSE j \in 1..26 : upper[j] = s[i]]
                        ELSE s[i]]
    IN
    IF captcha_data.type = "image"
    THEN (IF lower(user_answer) = lower(captcha_data.answer) THEN "match"
          ELSE "mismatch")
    ELSE IF ~int_ok(user_answer) THEN "invalid"
    ELSE IF int_of(user_answer) = captcha_data.answer THEN "match"
    ELSE "mismatch"

\* the comparison of the answer: "match", "mismatch", or "invalid" (int() raised)
compare_answer(captcha_data, answer) ==
    LET user_answer == strip(answer) IN
    IF captcha_data.type = "image"
    THEN (IF user_answer = captcha_data.answer THEN "match" ELSE "mismatch")
    ELSE IF ~int_ok(user_answer) THEN "invalid"
    ELSE IF int_of(user_answer) = captcha_data.answer THEN "match"
    ELSE "mismatch"

\* the success branch with a failed INSERT left to the handler's except clause
verify_success_log_raises(c, h, user_id, db) ==
    Outcome(cache_delete(_reset_failure_count(c, user_id), Key("captcha_", user_id)),
            _log_verification(h, user_id, db, TRUE),
            IF db = "fails"
            THEN Reply(FALSE, "An error occurred during verification", 0)
            ELSE Reply(TRUE, "Verification successful!", 0))

\* the success branch: reset the counter, delete the captcha, log
verify_success(c, h, user_id, db) ==
    Outcome(cache_delete(_reset_failure_count(c, user_id), Key("captcha_", user_id)),
            _log_verification(h, user_id, db, TRUE),
            Reply(TRUE, "Verification successful!", 0))

\* the challenge kept for another guess while attempts remain
verify_failure_retry(c, h, user_id, db, skew, invalid) ==
    LET c1 == _increment_failure_count(c, user_id, skew)
        remaining == _get_remaining_attempts(c1, user_id)
    IN  IF remaining <= 0
        THEN Outcome(cache_delete(c1, Key("captcha_", user_id)), h,
                     Reply(FALSE, "Too many failed attempts", 0))
        ELSE Outcome(c1, _log_verification(h, user_id, db, FALSE),
                     Reply(FALSE, "Incorrect answer. {} attempts remaining", remaining))

\* the failure branches after the comparison: count the failure, delete the
\* captcha, log unless no attempts remain
verify_failure(c, h, user_id, db, skew, invalid) ==
    LET c1 == _increment_failure_count(c, user_id, skew)
        remaining == _get_remaining_attempts(c1, user_id)
        c2 == cache_delete(c1, Key("captcha_", user_id))
    IN  IF remaining <= 0
        THEN Outcome(c2, h,
                     Reply(FALSE,
                           IF invalid THEN "Invalid answer format. Please enter a number."
                           ELSE "Too many failed attempts", 0))
        ELSE Outcome(c2, _log_verification(h, user_id, db, FALSE),
                     Reply(FALSE,
                           IF invalid THEN "Invalid answer format. {} attempts remaining"
                           ELSE "Incorrect answer. {} attempts remaining", remaining))

\* verify_captcha from line 467 on: what it does with the captcha_data it
\* has read, on the cache as it is by then
verify_captcha_data(c, h, user_id, answer, db, skew, captcha_data) ==
    LET key == Key("captcha_", user_id)
        elapsed_time == now - captcha_data.created_at
    IN
    IF is_timed_out(elapsed_time)
    THEN Outcome(cache_delete(c, key), h, Reply(FALSE, "Captcha expired", 0))
    ELSE IF is_too_fast(elapsed_time)
    THEN LET data1 == [captcha_data EXCEPT !.attempts = @ + 1]
             c1 == cache_set(c, key, data1, captcha_timeout)
         IN  Outcome(_increment_failure_count(c1, user_id, skew),
                     _log_verification(h, user_id, db, FALSE),
                     Reply(FALSE, "Answer submitted too quickly", 0))
    ELSE IF is_too_slow(elapsed_time)
    THEN Outcome(cache_delete(c, key), h, Reply(FALSE, "Answer submitted too slowly", 0))
    ELSE IF attempts_exhausted(captcha_data)
    THEN Outcome(cache_delete(_increment_failure_count(c, user_id, skew), key), h,
                 Reply(FALSE, "Too many failed attempts", 0))
    ELSE
    LET verdict == compare_answer(captcha_data, answer) IN
    IF verdict = "match"
    THEN verify_success(c, h, user_id, db)
    ELSE verify_failure(c, h, user_id, db, skew, verdict = "invalid")

\* verify_captcha.  Its except clause is not reached: nothing in the body
\* raises other than int(), which has its own handler.
verify_captcha(c0, h, user_id, answer, db, skew) ==
    LET key == Key("captcha_", user_id)
        c == _is_user_locked_cache(c0, user_id)
    IN
    IF lock_gate(c0, user_id)
    THEN Outcome(c, h, Reply(FALSE, "You are temporarily locked",
                             _get_lock_remaining_time(c0, user_id)))
    ELSE IF ~cache_has(c, key)
    THEN Outcome(c, h, Reply(FALSE, "Captcha expired", 0))
    ELSE verify_captcha_data(c, h, user_id, answer, db, skew, cache_get(c, key))

----------------------------------------------------------------------------
(* verify_button_captcha *)

\* a wrong token turned away without being counted
verify_button_captcha_uncounted(c, h, user_id, token, db, skew) ==
    LET key == Key("button_captcha_", user_id) IN
    IF ~cache_has(c, key)
    THEN Outcome(c, h, Reply(FALSE, "Verification expired", 0))
    ELSE
    LET button_data == cache_get(c, key) IN
    IF is_timed_out(now - button_data.created_at)
    THEN Outcome(cache_delete(c, key), h, Reply(FALSE, "Verification expired", 0))
    ELSE IF button_data.token # token \/ button_data.user_id # user_id
    THEN Outcome(c, _log_verification(h, user_id, db, FALSE),
                 Reply(FALSE, "Invalid verification token.", 0))
    ELSE Outcome(cache_delete(_reset_failure_count(c, user_id), key),
                 _log_verification(h, user_id, db, TRUE),
                 Reply(TRUE, "Verification successful!", 0))

\* verify_button_captcha from line 619 on: what it does with the button_data
\* it has read, on the cache as it is by then
verify_button_captcha_data(c, h, user_id, token, db, skew, button_data) ==
    LET key == Key("button_captcha_", user_id) IN
    IF is_timed_out(now - button_data.created_at)
    THEN Outcome(cache_delete(c, key), h, Reply(FALSE, "Verification expired", 0))
    ELSE IF button_data.token # token \/ button_data.user_id # user_id
    THEN Outcome(_increment_failure_count(c, user_id, skew),
                 _log_verification(h, user_id, db, FALSE),
                 Reply(FALSE, "Invalid verification token.", 0))
    ELSE Outcome(cache_delete(_reset_failure_count(c, user_id), key),
                 _log_verification(h, user_id, db, TRUE),
                 Reply(TRUE, "Verification successful!", 0))

\* verify_button_captcha
verify_button_captcha(c, h, user_id, token, db, skew) ==
    LET key == Key("button_captcha_", user_id) IN
    IF ~cache_has(c, key)
    THEN Outcome(c, h, Reply(FALSE, "Verification expired", 0))
    ELSE verify_button_captcha_data(c, h, user_id, token, db, skew, cache_get(c, key))

----------------------------------------------------------------------------
(* The verified-users ledger *)

\* is_user_verified: the value it returns
is_user_verified(c, v, user_id) ==
    IF cache_has(c, Key("verified_", user_id))
    THEN cache_get(c, Key("verified_", user_id))
    ELSE user_id \in v

\* is_user_verified: the cache it leaves
is_user_verified_cache(c, v, user_id) ==
    IF cache_has(c, Key("verified_", user_id)) THEN c
    ELSE cache_set(c, Key("verified_", user_id), user_id \in v, VERIFIED_TTL)

\* set_user_verified
set_user_verified(c, v, user_id) ==
    [cache |-> cache_set(c, Key("verified_", user_id), TRUE, VERIFIED_TTL),
     verified_users |-> v \cup {user_id}]

\* the row and the cached flag removed, the failure records left
remove_user_verification_only(c, v, user_id) ==
    [cache |-> cache_delete(c, Key("verified_", user_id)),
     verified_users |-> v \ {user_id}]

\* remove_user_verification
remove_user_verification(c, v, user_id) ==
    [cache |-> _reset_failure_count(cache_delete(c, Key("verified_", user_id)), user_id),
     verified_users |-> v \ {user_id}]

----------------------------------------------------------------------------
(* The state machine *)

\* the clock readings at which calls are made, in ticks
Instants ==
    { 0, 2, Sec(min_answer_time), Sec(max_answer_time) + 2, Sec(captcha_timeout) + 1,
      Sec(lockout_duration) - 1, Sec(lockout_duration),
      Sec(lockout_duration) + Sec(min_answer_time) }

\* the answers users submit to a math question: the answers of the issued
\* questions, one of them padded, and text that is no number
MathAnswers ==
    { str_of(math_template(op, least_draws(operand_ranges(op))).answer) :
        op \in operation_types("hard") \cup operation_types("extreme") }
    \cup { <<" ", "3", "3", " ">>, <<"x">> }

\* the answers users submit to an image: the issued codes, one of them padded,
\* and one with the case of a letter changed
CodeAnswers ==
    ImageCodes \cup { <<" ", "a", "B", "7", "k">>, <<"A", "B", "7", "k">> }

\* the answers submitted where the db handle varies: the padded right answer
\* of one question, a wrong number, and text that is no number
HistoryAnswers == { <<" ", "3", "3", " ">>, <<"7">>, <<"x">> }

\* the db argument of a call that may log: no handle, a working one, or one
\* whose INSERT fails; a working one only while the table has room
DbHandles == IF Len(captcha_history) < MaxHistory THEN {"None", "ok", "fails"}
             ELSE {"None", "fails"}

\* the failure counter and the attempts of a challenge are followed up to MaxCount
counted(c) ==
    \A user_id \in Users :
        /\ _get_failure_count(c, user_id) <= MaxCount
        /\ cache_has(c, Key("captcha_", user_id)) =>
                cache_get(c, Key("captcha_", user_id)).attempts <= MaxCount

Init ==
    /\ now = 0
    /\ cache = <<>>
    /\ verified_users = {}
    /\ captcha_history = <<>>
    /\ last = [op |-> "init"]
    /\ calls = [w \in Workers |-> [pc |-> "idle", user_id |-> 0, count |-> 0]]

\* time passes; entries whose expire_time has come are no longer visible
Tick ==
    \E t \in Instants :
        /\ t > now
        /\ now' = t
        /\ cache' = cache_cull(cache, t)
        /\ last' = [op |-> "time"]
        /\ UNCHANGED <<verified_users, captcha_history, calls>>

\* types: the captcha types asked for; works: whether the rendering of the
\* image and the delivery by the bot succeed
GenerateCaptcha(types, works) ==
    \E user_id \in Users, captcha_type \in types,
       rendered \in works, sent \in works :
        \E pick \in CASE captcha_type = "math" ->
                            _generate_math_captcha(_get_failure_count(cache, user_id))
                      [] captcha_type = "image" -> ImageCodes
                      [] OTHER -> Tokens :
            LET r == generate_captcha(cache, user_id, captcha_type, pick, rendered, sent)
            IN  /\ cache' = r.cache
                /\ last' = [op |-> "generate_captcha", user_id |-> user_id,
                            captcha_type |-> captcha_type, ret |-> r.ret]
                /\ UNCHANGED <<now, verified_users, captcha_history, calls>>

\* answers: the answers users submit; handles: the db arguments callers pass
VerifyCaptcha(answers, handles) ==
    \E user_id \in Users, answer \in answers, db \in handles, skew \in 0..MaxSkew :
        LET r == verify_captcha(cache, captcha_history, user_id, answer, db, skew)
        IN  /\ counted(r.cache)
            /\ cache' = r.cache
            /\ captcha_history' = r.history
            /\ last' = [op |-> "verify_captcha", user_id |-> user_id,
                        answer |-> answer, db |-> db, ret |-> r.ret]
            /\ UNCHANGED <<now, verified_users, calls>>

VerifyButtonCaptcha(handles) ==
    \E user_id \in Users, token \in Tokens, db \in handles, skew \in 0..MaxSkew :
        LET r == verify_button_captcha(cache, captcha_history, user_id, token, db, skew)
        IN  /\ counted(r.cache)
            /\ cache' = r.cache
            /\ captcha_history' = r.history
            /\ last' = [op |-> "verify_button_captcha", user_id |-> user_id,
                        token |-> token, db |-> db, ret |-> r.ret]
            /\ UNCHANGED <<now, verified_users, calls>>

IsUserLocked ==
    \E user_id \in Users :
        /\ cache' = _is_user_locked_cache(cache, user_id)
        /\ last' = [op |-> "_is_user_locked", user_id |-> user_id,
                    lock_until |-> IF cache_has(cache, Key("captcha_locked_", user_id))
                                   THEN cache_get(cache, Key("captcha_locked_", user_id))
                                   ELSE -1,
                    ret |-> _is_user_locked(cache, user_id)]
        /\ UNCHANGED <<now, verified_users, captcha_history, calls>>

IsUserVerified ==
    \E user_id \in Users :
        /\ cache' = is_user_verified_cache(cache, verified_users, user_id)
        /\ last' = [op |-> "is_user_verified", user_id |-> user_id,
                    ret |-> is_user_verified(cache, verified_users, user_id)]
        /\ UNCHANGED <<now, verified_users, captcha_history, calls>>

SetUserVerified ==
    \E user_id \in Users :
        LET r == set_user_verified(cache, verified_users, user_id)
        IN  /\ cache' = r.cache
            /\ verified_users' = r.verified_users
            /\ last' = [op |-> "set_user_verified", user_id |-> user_id]
            /\ UNCHANGED <<now, captcha_history, calls>>

RemoveUserVerification ==
    \E user_id \in Users :
        LET r == remove_user_verification(cache, verified_users, user_id)
        IN  /\ cache' = r.cache
            /\ verified_users' = r.verified_users
            /\ last' = [op |-> "remove_user_verification", user_id |-> user_id,
                        found |-> [verified |-> user_id \in verified_users,
                                   locked |-> _is_user_locked(cache, user_id)]]
            /\ UNCHANGED <<now, captcha_history, calls>>

\* _increment_failure_count run by a worker beside the others, statement by
\* statement.  Line 60: the counter is read and one is added.
IncrementRead ==
    \E w \in Workers, user_id \in Users :
        /\ calls[w].pc = "idle"
        /\ calls' = [calls EXCEPT ![w] =
                        [pc |-> "read", user_id |-> user_id,
                         count |-> _get_failure_count(cache, user_id) + 1]]
        /\ last' = [op |-> "_get_failure_count", user_id |-> user_id]
        /\ UNCHANGED <<now, cache, verified_users, captcha_history>>

\* line 61: the count is written back
IncrementWrite ==
    \E w \in Workers :
        /\ calls[w].pc = "read"
        /\ cache' = cache_set(cache, Key("captcha_failures_", calls[w].user_id),
                              calls[w].count, FAILURE_TTL)
        /\ calls' = [calls EXCEPT ![w].pc = "written"]
        /\ last' = [op |-> "cache.set", user_id |-> calls[w].user_id]
        /\ UNCHANGED <<now, verified_users, captcha_history>>

\* lines 64-66: the lock is stored when the count written reaches the
\* threshold, and the call returns
IncrementReturn ==
    \E w \in Workers :
        /\ calls[w].pc = "written"
        /\ cache' = IF reaches_lockout(calls[w].count)
                    THEN cache_set(cache, Key("captcha_locked_", calls[w].user_id),
                                   now + Sec(lockout_duration), lockout_duration)
                    ELSE cache
        /\ calls' = [calls EXCEPT ![w].pc = "returned"]
        /\ last' = [op |-> "_increment_failure_count", user_id |-> calls[w].user_id]
        /\ UNCHANGED <<now, verified_users, captcha_history>>

\* no call of a worker has started
all_idle == \A w \in Workers : calls[w].pc = "idle"

\* a call of a worker that has returned
Returned(op, user_id, submitted, data, ret) ==
    [pc |-> "returned", user_id |-> user_id, count |-> 0, op |-> op,
     submitted |-> submitted, data |-> data, ret |-> ret]

\* verify_captcha up to line 463: the lock gate and the cache.get of the
\* challenge.  The call returns here when the user is locked or nothing is
\* stored; otherwise the worker holds the captcha_data it read.
SubmitRead(answers) ==
    \E w \in Workers, user_id \in Users, answer \in answers :
        LET key == Key("captcha_", user_id)
            c == _is_user_locked_cache(cache, user_id)
            r == verify_captcha(cache, captcha_history, user_id, answer, "ok", 0)
        IN  /\ calls[w].pc = "idle"
            /\ cache' = c
            /\ calls' = [calls EXCEPT ![w] =
                   IF lock_gate(cache, user_id) \/ ~cache_has(c, key)
                   THEN Returned("verify_captcha", user_id, answer, <<>>, r.ret)
                   ELSE [pc |-> "read", user_id |-> user_id, count |-> 0,
                         op |-> "verify_captcha", submitted |-> answer,
                         data |-> <<cache_get(c, key)>>]]
            /\ last' = [op |-> "cache.get", user_id |-> user_id]
            /\ UNCHANGED <<now, verified_users, captcha_history>>

\* verify_captcha from line 467 on, with the captcha_data read before
SubmitFinish ==
    \E w \in Workers, skew \in 0..MaxSkew :
        LET call == calls[w]
            r == verify_captcha_data(cache, captcha_history, call.user_id,
                                     call.submitted, "ok", skew, call.data[1])
        IN  /\ call.pc = "read"
            /\ call.op = "verify_captcha"
            /\ cache' = r.cache
            /\ captcha_history' = r.history
            /\ calls' = [calls EXCEPT ![w] =
                   Returned(call.op, call.user_id, call.submitted, call.data, r.ret)]
            /\ last' = [op |-> "verify_captcha", user_id |-> call.user_id,
                        answer |-> call.submitted, db |-> "ok", ret |-> r.ret]
            /\ UNCHANGED <<now, verified_users>>

\* verify_button_captcha up to line 616: the cache.get of the token
TokenRead ==
    \E w \in Workers, user_id \in Users, token \in Tokens :
        LET key == Key("button_captcha_", user_id) IN
            /\ calls[w].pc = "idle"
            /\ calls' = [calls EXCEPT ![w] =
                   IF ~cache_has(cache, key)
                   THEN Returned("verify_button_captcha", user_id, token, <<>>,
                                 Reply(FALSE, "Verification expired", 0))
                   ELSE [pc |-> "read", user_id |-> user_id, count |-> 0,
                         op |-> "verify_button_captcha", submitted |-> token,
                         data |-> <<cache_get(cache, key)>>]]
            /\ last' = [op |-> "cache.get", user_id |-> user_id]
            /\ UNCHANGED <<now, cache, verified_users, captcha_history>>

\* verify_button_captcha from line 619 on, with the button_data read before
TokenFinish ==
    \E w \in Workers, skew \in 0..MaxSkew :
        LET call == calls[w]
            r == verify_button_captcha_data(cache, captcha_history, call.user_id,
                                            call.submitted, "ok", skew, call.data[1])
        IN  /\ call.pc = "read"
            /\ call.op = "verify_button_captcha"
            /\ cache' = r.cache
            /\ captcha_history' = r.history
            /\ calls' = [calls EXCEPT ![w] =
                   Returned(call.op, call.user_id, call.submitted, call.data, r.ret)]
            /\ last' = [op |-> "verify_button_captcha", user_id |-> call.user_id,
                        token |-> call.submitted, db |-> "ok", ret |-> r.ret]
            /\ UNCHANGED <<now, verified_users>>

\* a challenge is issued before any submission has started
IssueOnce(types) == all_idle /\ GenerateCaptcha(types, {TRUE})

\* a call on the verified-users ledger that a worker has under way
LedgerCall(pc, op, user_id, verified) ==
    [pc |-> pc, user_id |-> user_id, count |-> 0, op |-> op, verified |-> verified]

\* is_user_verified, line 663: the cache.get; the call returns on a hit
VerifiedGet ==
    \E w \in Workers, user_id \in Users :
        LET key == Key("verified_", user_id) IN
            /\ calls[w].pc = "idle"
            /\ calls' = [calls EXCEPT ![w] =
                   IF cache_has(cache, key)
                   THEN LedgerCall("returned", "is_user_verified", user_id,
                                   cache_get(cache, key))
                   ELSE LedgerCall("missed", "is_user_verified", user_id, FALSE)]
            /\ last' = [op |-> "cache.get", user_id |-> user_id]
            /\ UNCHANGED <<now, cache, verified_users, captcha_history>>

\* is_user_verified, lines 665-668: the SELECT on verified_users
VerifiedSelect ==
    \E w \in Workers :
        /\ calls[w].pc = "missed"
        /\ calls' = [calls EXCEPT ![w] =
               LedgerCall("selected", "is_user_verified", calls[w].user_id,
                          calls[w].user_id \in verified_users)]
        /\ last' = [op |-> "SELECT", user_id |-> calls[w].user_id]
        /\ UNCHANGED <<now, cache, verified_users, captcha_history>>

\* is_user_verified, lines 669-670: the result is cached and returned
VerifiedFill ==
    \E w \in Workers :
        /\ calls[w].pc = "selected"
        /\ cache' = cache_set(cache, Key("verified_", calls[w].user_id),
                              calls[w].verified, VERIFIED_TTL)
        /\ calls' = [calls EXCEPT ![w].pc = "returned"]
        /\ last' = [op |-> "is_user_verified", user_id |-> calls[w].user_id,
                    ret |-> calls[w].verified]
        /\ UNCHANGED <<now, verified_users, captcha_history>>

\* set_user_verified, lines 674-676: the INSERT OR REPLACE and the commit
MarkInsert ==
    \E w \in Workers, user_id \in Users :
        /\ calls[w].pc = "idle"
        /\ verified_users' = verified_users \cup {user_id}
        /\ calls' = [calls EXCEPT ![w] =
               LedgerCall("inserted", "set_user_verified", user_id, TRUE)]
        /\ last' = [op |-> "INSERT", user_id |-> user_id]
        /\ UNCHANGED <<now, cache, captcha_history>>

\* set_user_verified, line 677: the cache.set
MarkCache ==
    \E w \in Workers :
        /\ calls[w].pc = "inserted"
        /\ cache' = cache_set(cache, Key("verified_", calls[w].user_id), TRUE,
                              VERIFIED_TTL)
        /\ calls' = [calls EXCEPT ![w].pc = "returned"]
        /\ last' = [op |-> "set_user_verified", user_id |-> calls[w].user_id]
        /\ UNCHANGED <<now, verified_users, captcha_history>>

\* remove_user_verification, lines 681-683: the DELETE and the commit
RevokeDelete ==
    \E w \in Workers, user_id \in Users :
        /\ calls[w].pc = "idle"
        /\ verified_users' = verified_users \ {user_id}
        /\ calls' = [calls EXCEPT ![w] =
               LedgerCall("deleted", "remove_user_verification", user_id, FALSE)]
        /\ last' = [op |-> "DELETE", user_id |-> user_id]
        /\ UNCHANGED <<now, cache, captcha_history>>

\* remove_user_verification, lines 684-686: the cache.delete and the reset
\* of the failure records
RevokeCache ==
    \E w \in Workers :
        /\ calls[w].pc = "deleted"
        /\ cache' = _reset_failure_count(
                        cache_delete(cache, Key("verified_", calls[w].user_id)),
                        calls[w].user_id)
        /\ calls' = [calls EXCEPT ![w].pc = "returned"]
        /\ last' = [op |-> "remove_user_verification_returned",
                    user_id |-> calls[w].user_id]
        /\ UNCHANGED <<now, verified_users, captcha_history>>

\* the match statement of _generate_math_captcha entered with a tier of tiers:
\* a template is chosen and its operands drawn
GenerateMathCaptcha(tiers) ==
    \E difficulty \in tiers :
        \E operation_type \in operation_types(difficulty) :
            \E n \in Draws(operation_type) :
                /\ last' = [op |-> "_generate_math_captcha", difficulty |-> difficulty,
                            operation_type |-> operation_type, draws |-> n,
                            ret |-> math_template(operation_type, n)]
                /\ UNCHANGED <<now, cache, verified_users, captcha_history, calls>>

GetUserVerificationStats ==
    \E user_id \in Users :
        /\ last' = [op |-> "get_user_verification_stats", user_id |-> user_id,
                    ret |-> get_user_verification_stats(captcha_history, user_id)]
        /\ UNCHANGED <<now, cache, verified_users, captcha_history, calls>>

\* the rows a history table may hold when the statistics are asked for: of
\* the user and of another one, passed and failed, written at the seconds
\* around the start of the window
StatsRows ==
    [user_id : Users \cup {2}, success : {0, 1}, timestamp : {0, 1, 2}]

\* the tables of up to n such rows
RECURSIVE StatsHistories(_)
StatsHistories(n) ==
    IF n = 0 THEN { <<>> }
    ELSE StatsHistories(n - 1) \cup
         { Append(h, row) : h \in { x \in StatsHistories(n - 1) : Len(x) = n - 1 },
                            row \in StatsRows }

\* the clock readings at which the statistics are asked for: a day after
\* second 0, half a second later, and a day after second 1
StatsInstants ==
    { Sec(STATS_WINDOW), Sec(STATS_WINDOW) + 1, Sec(STATS_WINDOW + 1) }

\* an engine with a history written earlier
InitStats ==
    /\ now \in StatsInstants
    /\ cache = <<>>
    /\ verified_users = {}
    /\ captcha_history \in StatsHistories(MaxRows)
    /\ last = [op |-> "init"]
    /\ calls = [w \in Workers |-> [pc |-> "idle", user_id |-> 0, count |-> 0]]

\* The engine: issue and submit of the math and image captchas, without a
\* db handle
Next ==
    \/ Tick
    \/ GenerateCaptcha({"math", "image"}, {TRUE})
    \/ VerifyCaptcha(MathAnswers \cup CodeAnswers, {"None"})
    \/ IsUserLocked
    \/ RemoveUserVerification

Spec == Init /\ [][Next]_vars

\* The engine with the button captcha beside the image captcha
NextButton ==
    \/ Tick
    \/ GenerateCaptcha({"image", "button"}, {TRUE})
    \/ VerifyCaptcha(CodeAnswers, {"None"})
    \/ VerifyButtonCaptcha({"None"})

SpecButton == Init /\ [][NextButton]_vars

\* The engine called with a db handle: the math captcha and the history table
NextHistory ==
    \/ Tick
    \/ GenerateCaptcha({"math"}, {TRUE})
    \/ VerifyCaptcha(HistoryAnswers, DbHandles)

SpecHistory == Init /\ [][NextHistory]_vars

\* The engine and the ledger of verified users
NextLedger ==
    \/ Tick
    \/ GenerateCaptcha({"math"}, {TRUE})
    \/ VerifyCaptcha(HistoryAnswers, {"None"})
    \/ IsUserVerified
    \/ SetUserVerified
    \/ RemoveUserVerification

SpecLedger == Init /\ [][NextLedger]_vars

\* The question generator alone, over the templates of every tier
NextMath == GenerateMathCaptcha(Tiers)

SpecMath == Init /\ [][NextMath]_vars

\* The statistics over a history table
NextStats == GetUserVerificationStats

SpecStats == InitStats /\ [][NextStats]_vars

\* Failing submissions of one user handled by several workers at once: each
\* worker runs _increment_failure_count once, its statements interleaved with
\* the others'
NextRace ==
    \/ Tick
    \/ IncrementRead
    \/ IncrementWrite
    \/ IncrementReturn

SpecRace == Init /\ [][NextRace]_vars

\* duplicate submissions: one challenge and one token are issued, and the
\* workers' calls of verify_captcha and verify_button_captcha interleave at
\* the cache operations
NextDuplicate ==
    \/ Tick
    \/ IssueOnce({"image", "button"})
    \/ SubmitRead(CodeAnswers)
    \/ SubmitFinish
    \/ TokenRead
    \/ TokenFinish

SpecDuplicate == Init /\ [][NextDuplicate]_vars

\* the ledger called by several workers at once: the calls interleave at the
\* statements on verified_users and on the cache
NextLedgerRace ==
    \/ Tick
    \/ VerifiedGet
    \/ VerifiedSelect
    \/ VerifiedFill
    \/ MarkInsert
    \/ MarkCache
    \/ RevokeDelete
    \/ RevokeCache

SpecLedgerRace == Init /\ [][NextLedgerRace]_vars

\* image challenges whose rendering or delivery may fail
NextFaults ==
    \/ Tick
    \/ GenerateCaptcha({"image"}, {TRUE, FALSE})
    \/ VerifyCaptcha(CodeAnswers, {"None"})

SpecFaults == Init /\ [][NextFaults]_vars

----------------------------------------------------------------------------
(* State functions used to state the properties *)

captcha_key(user_id) == Key("captcha_", user_id)
button_key(user_id) == Key("button_captcha_", user_id)
lock_key(user_id) == Key("captcha_locked_", user_id)
failures_key(user_id) == Key("captcha_failures_", user_id)

\* a challenge is stored for the user
has_captcha(user_id) == cache_has(cache, captcha_key(user_id))

\* now - created_at of the stored challenge
elapsed(user_id) == now - cache_get(cache, captcha_key(user_id)).created_at

\* a lock timestamp is stored for the user
has_lock(user_id) == cache_has(cache, lock_key(user_id))

\* isLocked: a stored locked_until lies in the future
locked(user_id) == has_lock(user_id) /\ now < cache_get(cache, lock_key(user_id))

failure_count(user_id) == _get_failure_count(cache, user_id)

\* the entry stored under a key, or a marker when none is
entry(c, key) == IF key \in DOMAIN c THEN <<c[key]>> ELSE <<>>

\* the step is a call of verify_captcha for the user
submitted(user_id) == last'.op = "verify_captcha" /\ last'.user_id = user_id

\* the step is a call of generate_captcha for the user
issued(user_id) == last'.op = "generate_captcha" /\ last'.user_id = user_id

\* the replies of verify_captcha after a comparison that did not match
MismatchReplies ==
    { "Incorrect answer. {} attempts remaining",
      "Invalid answer format. {} attempts remaining",
      "Invalid answer format. Please enter a number.",
      "Too many failed attempts" }

----------------------------------------------------------------------------
(* C1 *)

\* C1: verify_captcha returns passed = true only if a challenge is stored for
\* the user and min_answer_time <= now - created_at <= max_answer_time (hence
\* <= captcha_timeout); outside that window it never passes, also when the
\* cache still holds the challenge.
C1_PassOnlyInWindow ==
    [][\A u \in Users :
        (submitted(u) /\ last'.ret.passed) =>
            /\ has_captcha(u)
            /\ Sec(min_answer_time) <= elapsed(u)
            /\ elapsed(u) <= Sec(max_answer_time)
            /\ elapsed(u) <= Sec(captcha_timeout)]_vars

\* a submission passed
C1_Witness == last.op = "verify_captcha" /\ last.ret.passed

----------------------------------------------------------------------------
(* C2 *)

\* C2: after a successful verification (verify_captcha or
\* verify_button_captcha returning passed = true) the user is marked verified:
\* is_user_verified returns true in the resulting state.
C2_VerifiedAfterSuccess ==
    (last.op \in {"verify_captcha", "verify_button_captcha"} /\ last.ret.passed) =>
        is_user_verified(cache, verified_users, last.user_id)

----------------------------------------------------------------------------
(* C3 *)

\* C3: in every state and for every user a lock timestamp is stored if and
\* only if the user's failure counter is >= lockout_after_attempts.
C3_LockIffThreshold ==
    \A u \in Users : has_lock(u) <=> failure_count(u) >= lockout_after_attempts

----------------------------------------------------------------------------
(* C4 *)

\* C4 as claimed: a submit for a stored challenge before min_answer_time has
\* elapsed is always rejected as too fast and increases the failure counter
\* by exactly one.
C4_TooFastAlways ==
    [][\A u \in Users :
        (submitted(u) /\ has_captcha(u) /\ elapsed(u) < Sec(min_answer_time)) =>
            /\ ~last'.ret.passed
            /\ last'.ret.message = "Answer submitted too quickly"
            /\ failure_count(u)' = failure_count(u) + 1]_vars

\* C4 as amended: a submit, by a user whom the lock check does not reject, for
\* a stored challenge before min_answer_time has elapsed is rejected as too
\* fast and increases the failure counter by exactly one.
C4_TooFastUnlessLocked ==
    [][\A u \in Users :
        (/\ submitted(u)
         /\ ~(locked(u) /\ int_seconds(cache_get(cache, lock_key(u)) - now) > 0)
         /\ has_captcha(u)
         /\ elapsed(u) < Sec(min_answer_time)) =>
            /\ ~last'.ret.passed
            /\ last'.ret.message = "Answer submitted too quickly"
            /\ failure_count(u)' = failure_count(u) + 1]_vars

\* a submission was rejected as too fast and the counter stands above zero
C4_Witness ==
    /\ last.op = "verify_captcha"
    /\ last.ret.message = "Answer submitted too quickly"
    /\ failure_count(last.user_id) >= 1

----------------------------------------------------------------------------
(* C5 *)

\* C5 as claimed: a submit for a stored challenge after max_answer_time has
\* elapsed is rejected, deletes the challenge, and leaves the failure counter
\* and the lock unchanged.
C5_TooSlowAlways ==
    [][\A u \in Users :
        (submitted(u) /\ has_captcha(u) /\ elapsed(u) > Sec(max_answer_time)) =>
            /\ ~last'.ret.passed
            /\ captcha_key(u) \notin DOMAIN cache'
            /\ entry(cache', failures_key(u)) = entry(cache, failures_key(u))
            /\ entry(cache', lock_key(u)) = entry(cache, lock_key(u))]_vars

\* C5 as amended: a submit, by a user whom the lock check does not reject, for
\* a stored challenge after max_answer_time has elapsed is rejected, deletes
\* the challenge, leaves the failure counter unchanged and sets or extends no
\* lock (the lock entry is as the lock check leaves it: an expired one is
\* cleared).
C5_TooSlowUnlessLocked ==
    [][\A u \in Users :
        (/\ submitted(u)
         /\ ~(locked(u) /\ int_seconds(cache_get(cache, lock_key(u)) - now) > 0)
         /\ has_captcha(u)
         /\ elapsed(u) > Sec(max_answer_time)) =>
            /\ ~last'.ret.passed
            /\ captcha_key(u) \notin DOMAIN cache'
            /\ entry(cache', failures_key(u)) = entry(cache, failures_key(u))
            /\ entry(cache', lock_key(u)) =
                    IF locked(u) THEN entry(cache, lock_key(u)) ELSE <<>>]_vars

\* a submission was rejected as too slow
C5_Witness ==
    /\ last.op = "verify_captcha"
    /\ last.ret.message = "Answer submitted too slowly"
    /\ ~has_captcha(last.user_id)

----------------------------------------------------------------------------
(* C6 *)

\* C6: immediately after a successful verification (verify_captcha or
\* verify_button_captcha) the user's failure counter is zero (the remaining
\* attempts are max_attempts), no lock is stored for the user, and the
\* challenge or token just answered is no longer stored.
C6_SuccessClears ==
    (last.op \in {"verify_captcha", "verify_button_captcha"} /\ last.ret.passed) =>
        LET u == last.user_id IN
            /\ failure_count(u) = 0
            /\ failures_key(u) \notin DOMAIN cache
            /\ _get_remaining_attempts(cache, u) = max_attempts
            /\ lock_key(u) \notin DOMAIN cache
            /\ ~locked(u)
            /\ last.op = "verify_captcha" => captcha_key(u) \notin DOMAIN cache
            /\ last.op = "verify_button_captcha" => button_key(u) \notin DOMAIN cache

\* the right token was submitted and passed
C6_Witness ==
    /\ last.op = "verify_button_captcha"
    /\ last.ret.passed
    /\ ~cache_has(cache, button_key(last.user_id))

----------------------------------------------------------------------------
(* C7 *)

\* C7: _is_user_locked is true in the state that follows the failure bringing
\* the counter to lockout_after_attempts, and a call of it at a time
\* now >= locked_until returns false and leaves no lock entry.
C7_LockedThenUnlocked ==
    [][\A u \in Users :
        /\ (/\ failure_count(u)' = failure_count(u) + 1
            /\ failure_count(u)' >= lockout_after_attempts) => locked(u)'
        /\ (/\ last'.op = "_is_user_locked"
            /\ last'.user_id = u
            /\ has_lock(u) => now >= cache_get(cache, lock_key(u))
            /\ ~has_lock(u) => failure_count(u) >= lockout_after_attempts) =>
                /\ last'.ret = FALSE
                /\ lock_key(u) \notin DOMAIN cache']_vars

\* _is_user_locked read a lock_until that had passed, for a user whose counter
\* stands at the threshold, and answered false
C7_Witness ==
    /\ last.op = "_is_user_locked"
    /\ last.lock_until >= 0
    /\ last.lock_until <= now
    /\ last.ret = FALSE
    /\ failure_count(last.user_id) >= lockout_after_attempts

----------------------------------------------------------------------------
(* C8 *)

\* C8: generate_captcha for a user who is locked returns no content and the
\* lock message with 0 < remaining seconds <= lockout_duration, stores no new
\* challenge or token, and leaves the existing challenge, the failure counter
\* and the lock unchanged.
C8_NoIssueWhileLocked ==
    [][\A u \in Users :
        (issued(u) /\ locked(u)) =>
            /\ last'.ret.content = NoContent
            /\ last'.ret.error = "You have failed too many times"
            /\ last'.ret.number > 0
            /\ last'.ret.number <= lockout_duration
            /\ cache' = cache]_vars

----------------------------------------------------------------------------
(* C9 *)

\* C9: verify_captcha for a user who is locked is rejected and changes
\* nothing: not the failure counter, not the lock, not the stored challenge or
\* its attempts, and no history row is written.
C9_NoSubmitWhileLocked ==
    [][\A u \in Users :
        (submitted(u) /\ locked(u)) =>
            /\ ~last'.ret.passed
            /\ cache' = cache
            /\ captcha_history' = captcha_history]_vars

----------------------------------------------------------------------------
(* C10 *)

\* C10 as claimed: after a submission that reached the comparison and did not
\* match, no challenge is stored for the user, and a submit made while none
\* is stored (a further submit without a new issue) is rejected as expired.
C10_OneGuessThenExpired ==
    [][\A u \in Users :
        /\ (submitted(u) /\ last'.ret.message \in MismatchReplies) =>
                captcha_key(u) \notin DOMAIN cache'
        /\ (submitted(u) /\ captcha_key(u) \notin DOMAIN cache) =>
                /\ ~last'.ret.passed
                /\ last'.ret.message = "Captcha expired"]_vars

\* C10 as amended: after a submission that reached the comparison and did not
\* match, no challenge is stored for the user, and a submit made while none
\* is stored (a further submit without a new issue) is rejected: as locked
\* when the lock check rejects the user (the failure may have locked them),
\* and as expired otherwise.
C10_OneGuessThenRejected ==
    [][\A u \in Users :
        /\ (submitted(u) /\ last'.ret.message \in MismatchReplies) =>
                captcha_key(u) \notin DOMAIN cache'
        /\ (submitted(u) /\ captcha_key(u) \notin DOMAIN cache) =>
                /\ ~last'.ret.passed
                /\ last'.ret.message =
                     IF locked(u) /\ int_seconds(cache_get(cache, lock_key(u)) - now) > 0
                     THEN "You are temporarily locked"
                     ELSE "Captcha expired"]_vars

\* a wrong answer was compared and the user, not locked by it, is left
\* without a challenge
C10_Witness ==
    /\ last.op = "verify_captcha"
    /\ last.ret.message = "Incorrect answer. {} attempts remaining"
    /\ ~locked(last.user_id)
    /\ ~has_captcha(last.user_id)

----------------------------------------------------------------------------
(* C11 *)

\* the calls of _increment_failure_count for the user that have returned
returned_calls(user_id) ==
    { w \in Workers : calls[w].pc = "returned" /\ calls[w].user_id = user_id }

\* no call of _increment_failure_count is under way
quiescent == \A w \in Workers : calls[w].pc \in {"idle", "returned"}

\* C11: when k calls of _increment_failure_count for one user have run, in
\* any interleaving of their reads and writes, the failure counter has
\* increased by exactly k, and the user is locked when the last call returns
\* with the total at or above lockout_after_attempts.
C11_NoLostIncrement ==
    \A u \in Users :
        quiescent =>
            /\ failure_count(u) = Cardinality(returned_calls(u))
            /\ (/\ last.op = "_increment_failure_count"
                /\ Cardinality(returned_calls(u)) >= lockout_after_attempts) =>
                    locked(u)

----------------------------------------------------------------------------
(* C12 *)

\* the step is a call of verify_captcha or verify_button_captcha for the user
\* with a db handle whose INSERT works
verified_with_db(user_id) ==
    /\ last'.op \in {"verify_captcha", "verify_button_captcha"}
    /\ last'.user_id = user_id
    /\ last'.db = "ok"

\* the step ends a verification attempt: success, a failure that is counted
\* (wrong answer, invalid format, too fast, token mismatch), or the timeout of
\* a stored challenge found on submit
terminal_attempt(user_id) ==
    \/ last'.ret.passed
    \/ last'.ret.message \in MismatchReplies
    \/ last'.ret.message \in {"Invalid verification token.",
                              "Answer submitted too quickly"}
    \/ last'.ret.message = "Captcha expired" /\ has_captcha(user_id)

\* C12: with a working db handle, every terminal verification attempt
\* (success, wrong answer, timeout on submit, invalid format, token mismatch)
\* appends exactly one history row for the user with the matching success
\* flag, whatever the attempts remaining; no other outcome appends a row, and
\* no step changes or removes a row.
C12_OneRecordPerAttempt ==
    [][/\ \A u \in Users :
            verified_with_db(u) =>
                IF terminal_attempt(u)
                THEN captcha_history' =
                        Append(captcha_history,
                               [user_id |-> u,
                                success |-> IF last'.ret.passed THEN 1 ELSE 0,
                                timestamp |-> int_seconds(now)])
                ELSE captcha_history' = captcha_history
       /\ Len(captcha_history') >= Len(captcha_history)
       /\ SubSeq(captcha_history', 1, Len(captcha_history)) = captcha_history]_vars

----------------------------------------------------------------------------
(* C13 *)

\* C13: a failing history INSERT never changes a verification decision: for
\* every call of verify_captcha or verify_button_captcha, the passed flag and
\* message returned and the cache left behind (challenge, failure counter,
\* lock) are the same whether the INSERT succeeds or fails.  The button is
\* pressed on the token that generate_captcha issues in the state at hand.
C13_LogFailureIsolated ==
    \A u \in Users, skew \in 0..MaxSkew :
        /\ \A answer \in HistoryAnswers :
              LET good == verify_captcha(cache, captcha_history, u, answer, "ok", skew)
                  bad == verify_captcha(cache, captcha_history, u, answer, "fails", skew)
              IN  good.ret = bad.ret /\ good.cache = bad.cache
        /\ \A pick \in Tokens, token \in Tokens :
              LET c == generate_captcha(cache, u, "button", pick, TRUE, TRUE).cache
                  good == verify_button_captcha(c, captcha_history, u, token, "ok", skew)
                  bad == verify_button_captcha(c, captcha_history, u, token, "fails",
                                               skew)
              IN  good.ret = bad.ret /\ good.cache = bad.cache

\* a submission passed although its INSERT failed and no row was written
C13_Witness ==
    /\ last.op = "verify_captcha"
    /\ last.db = "fails"
    /\ last.ret.passed
    /\ captcha_history = <<>>
    /\ ~has_captcha(last.user_id)

----------------------------------------------------------------------------
(* C14 *)

\* C14: after remove_user_verification the user has no row in verified_users
\* and no cached verified entry, so is_user_verified returns false, and the
\* user's failure counter is zero and no lock is stored, whatever the state
\* before the call.
C14_RevokeClears ==
    last.op = "remove_user_verification" =>
        LET u == last.user_id IN
            /\ u \notin verified_users
            /\ Key("verified_", u) \notin DOMAIN cache
            /\ ~is_user_verified(cache, verified_users, u)
            /\ failure_count(u) = 0
            /\ failures_key(u) \notin DOMAIN cache
            /\ lock_key(u) \notin DOMAIN cache
            /\ ~locked(u)

\* a user who was verified and locked has been revoked
C14_Witness ==
    /\ last.op = "remove_user_verification"
    /\ last.found.verified
    /\ last.found.locked
    /\ ~is_user_verified(cache, verified_users, last.user_id)

----------------------------------------------------------------------------
(* C15 *)

\* the dividend and the divisor that a division question displays
displayed_dividend(operation_type, n) ==
    IF operation_type = "nested_ops" THEN (n[1] + n[2]) * n[3] - n[4]
    ELSE n[1] * n[2]

displayed_divisor(operation_type, n) ==
    IF operation_type = "nested_ops" THEN n[5] ELSE n[1]

\* C15: for every division template ("divide", "complex_divide",
\* "nested_ops") and every draw of its operands, the displayed dividend is
\* exactly divisible by the displayed divisor, and the stored answer is the
\* exact value of the displayed expression.
C15_DivisionExact ==
    (/\ last.op = "_generate_math_captcha"
     /\ last.operation_type \in {"divide", "complex_divide", "nested_ops"}) =>
        LET dividend == displayed_dividend(last.operation_type, last.draws)
            divisor == displayed_divisor(last.operation_type, last.draws)
        IN  /\ dividend % divisor = 0
            /\ last.ret.answer * divisor = dividend

----------------------------------------------------------------------------
(* C16 *)

\* the place of a tier in the order easy < medium < hard < extreme
tier_rank(difficulty) ==
    CASE difficulty = "easy" -> 1
      [] difficulty = "medium" -> 2
      [] difficulty = "hard" -> 3
      [] OTHER -> 4

\* C16: the tier of a math question is a function of the failure count that
\* never decreases, is strictly harder after 1 prior failure than after none
\* and strictly harder after 2 than after 1, and is "extreme" for every
\* failure count >= 2.  Stated of the tier chosen for every count up to
\* MaxCount, the user's own count included.
C16_DifficultyEscalates ==
    /\ \A f \in 0..(MaxCount - 1) :
            tier_rank(math_difficulty(f)) <= tier_rank(math_difficulty(f + 1))
    /\ tier_rank(math_difficulty(0)) < tier_rank(math_difficulty(1))
    /\ tier_rank(math_difficulty(1)) < tier_rank(math_difficulty(2))
    /\ \A f \in 2..MaxCount : math_difficulty(f) = "extreme"
    /\ \A u \in Users :
            failure_count(u) >= 2 => math_difficulty(failure_count(u)) = "extreme"

----------------------------------------------------------------------------
(* C17 *)

\* an image challenge is stored for the user and now lies inside the timing
\* window min_answer_time <= now - created_at <= max_answer_time
image_in_window(user_id) ==
    /\ has_captcha(user_id)
    /\ cache_get(cache, captcha_key(user_id)).type = "image"
    /\ Sec(min_answer_time) <= elapsed(user_id)
    /\ elapsed(user_id) <= Sec(max_answer_time)

----------------------------------------------------------------------------
(* C18 *)

\* C18: verify_button_captcha for a user with a stored button token that has
\* not timed out, called with a token that differs from it, returns
\* passed = false, increases the failure counter by exactly one, leaves the
\* user locked when the counter reaches lockout_after_attempts, and does not
\* mark the user verified.
C18_TokenMismatchCounts ==
    [][\A u \in Users :
        (/\ last'.op = "verify_button_captcha"
         /\ last'.user_id = u
         /\ cache_has(cache, button_key(u))
         /\ now - cache_get(cache, button_key(u)).created_at <= Sec(captcha_timeout)
         /\ last'.token # cache_get(cache, button_key(u)).token) =>
            /\ ~last'.ret.passed
            /\ failure_count(u)' = failure_count(u) + 1
            /\ failure_count(u)' >= lockout_after_attempts => locked(u)'
            /\ verified_users' = verified_users
            /\ entry(cache', Key("verified_", u)) = entry(cache, Key("verified_", u))
            /\ ~is_user_verified(cache, verified_users, u) =>
                    ~is_user_verified(cache', verified_users', u)]_vars

\* a wrong token was submitted for a stored one and the failure locked the user
C18_Witness ==
    /\ last.op = "verify_button_captcha"
    /\ last.ret.message = "Invalid verification token."
    /\ cache_has(cache, button_key(last.user_id))
    /\ last.token # cache_get(cache, button_key(last.user_id)).token
    /\ failure_count(last.user_id) >= lockout_after_attempts
    /\ locked(last.user_id)

----------------------------------------------------------------------------
(* C19 *)

\* the number of rows of h that are the user's, carry one of the flags, and
\* were written less than a day before now
RECURSIVE rows_in_window(_, _, _)
rows_in_window(h, user_id, flags) ==
    IF h = <<>> THEN 0
    ELSE rows_in_window(Tail(h), user_id, flags) +
         (IF /\ Head(h).user_id = user_id
             /\ Head(h).success \in flags
             /\ now - Sec(Head(h).timestamp) < Sec(STATS_WINDOW)
          THEN 1 ELSE 0)

----------------------------------------------------------------------------
(* C20 *)

\* the values of the displayed expression of a template and of each of its
\* sub-expressions, evaluated left to right as displayed
displayed_values(operation_type, n) ==
    CASE operation_type = "+" -> {n[1] + n[2]}
      [] operation_type \in {"-", "large_numbers"} -> {n[1] - n[2]}
      [] operation_type = "complex_add" -> {n[1] + n[2], n[1] + n[2] - n[3]}
      [] operation_type \in {"divide", "complex_divide"} ->
            {n[1] * n[2], (n[1] * n[2]) \div n[1]}
      [] operation_type = "triple_op" ->
            {n[1] + n[2], (n[1] + n[2]) * n[3], (n[1] + n[2]) * n[3] - n[4]}
      [] operation_type = "nested_ops" ->
            {n[1] + n[2], (n[1] + n[2]) * n[3], (n[1] + n[2]) * n[3] - n[4],
             ((n[1] + n[2]) * n[3] - n[4]) \div n[5]}
      [] OTHER -> {n[1] * n[2]}

\* C20: for every template of every tier and every draw of its operands, the
\* stored answer and every intermediate value of the displayed expression,
\* each subtraction in particular, is non-negative.
C20_NoNegativeValue ==
    last.op = "_generate_math_captcha" =>
        /\ last.ret.answer >= 0
        /\ \A v \in displayed_values(last.operation_type, last.draws) : v >= 0
        /\ \A i \in 1..Len(last.ret.question.args) : last.ret.question.args[i] >= 0

\* a subtraction whose operands were drawn equal, with answer 0
C20_Witness ==
    /\ last.op = "_generate_math_captcha"
    /\ last.operation_type = "large_numbers"
    /\ last.draws[1] = last.draws[2]
    /\ last.ret.answer = 0

----------------------------------------------------------------------------
(* C21 *)

\* a challenge is stored for the user, now lies inside the timing window, and
\* the attempts counted on the challenge are >= max_attempts
exhausted_in_window(user_id) ==
    /\ has_captcha(user_id)
    /\ Sec(min_answer_time) <= elapsed(user_id)
    /\ elapsed(user_id) <= Sec(max_answer_time)
    /\ cache_get(cache, captcha_key(user_id)).attempts >= max_attempts

\* C21 as claimed: a submit inside the timing window for a stored challenge
\* whose attempts are already >= max_attempts is rejected as exhausted
\* whatever the answer, increases the failure counter by exactly one and
\* deletes the challenge.
C21_ExhaustedAlways ==
    [][\A u \in Users :
        (submitted(u) /\ exhausted_in_window(u)) =>
            /\ ~last'.ret.passed
            /\ last'.ret.message = "Too many failed attempts"
            /\ failure_count(u)' = failure_count(u) + 1
            /\ captcha_key(u) \notin DOMAIN cache']_vars

\* C21 as amended: a submit, by a user whom the lock check does not reject,
\* inside the timing window for a stored challenge whose attempts are already
\* >= max_attempts is rejected as exhausted whatever the answer, increases the
\* failure counter by exactly one and deletes the challenge.
C21_ExhaustedUnlessLocked ==
    [][\A u \in Users :
        (/\ submitted(u)
         /\ ~(locked(u) /\ int_seconds(cache_get(cache, lock_key(u)) - now) > 0)
         /\ exhausted_in_window(u)) =>
            /\ ~last'.ret.passed
            /\ last'.ret.message = "Too many failed attempts"
            /\ failure_count(u)' = failure_count(u) + 1
            /\ captcha_key(u) \notin DOMAIN cache']_vars

\* a submission was rejected as exhausted before the comparison: the failure
\* counter stands below max_attempts, where a compared answer is never
\* answered so
C21_Witness ==
    /\ last.op = "verify_captcha"
    /\ last.ret.message = "Too many failed attempts"
    /\ failure_count(last.user_id) < max_attempts
    /\ failure_count(last.user_id) >= 1
    /\ ~has_captcha(last.user_id)

----------------------------------------------------------------------------
(* C22 *)

\* C22: a too-fast rejection increases the attempts counted on the challenge
\* by exactly one and leaves the challenge stored with the same answer and
\* the same created_at, unless the attempts reach max_attempts by that
\* increase, in which case the challenge is no longer stored.
C22_TooFastKeepsChallenge ==
    [][\A u \in Users :
        (/\ submitted(u)
         /\ last'.ret.message = "Answer submitted too quickly"
         /\ has_captcha(u)) =>
            LET before == cache_get(cache, captcha_key(u)) IN
            IF before.attempts + 1 >= max_attempts
            THEN captcha_key(u) \notin DOMAIN cache'
            ELSE /\ captcha_key(u) \in DOMAIN cache'
                 /\ cache_get(cache', captcha_key(u)) =
                        [before EXCEPT !.attempts = before.attempts + 1]]_vars

----------------------------------------------------------------------------
(* C23 *)

\* the lock timestamp stored for the user was written by the step
lock_written(user_id) ==
    /\ has_lock(user_id)'
    /\ \/ ~has_lock(user_id)
       \/ cache_get(cache', lock_key(user_id)) # cache_get(cache, lock_key(user_id))

\* C23: a stored lock_until is at most now + lockout_duration; it is written
\* only by a step that counts a failure, as now + lockout_duration; and once
\* now >= lock_until (or the entry is gone) _is_user_locked answers false and
\* generate_captcha issues a challenge.
C23_LockoutBounded ==
    [][\A u \in Users :
        /\ has_lock(u)' =>
              cache_get(cache', lock_key(u)) <= now' + Sec(lockout_duration)
        /\ lock_written(u) =>
              /\ failure_count(u)' = failure_count(u) + 1
              /\ cache_get(cache', lock_key(u)) = now + Sec(lockout_duration)
        /\ (/\ last'.op = "_is_user_locked"
            /\ last'.user_id = u
            /\ ~locked(u)) =>
              /\ last'.ret = FALSE
              /\ ~has_lock(u)'
        /\ (issued(u) /\ ~locked(u)) =>
              /\ last'.ret.error = "None"
              /\ has_captcha(u)'
              /\ cache_get(cache', captcha_key(u)).created_at = now
              /\ ~has_lock(u)']_vars

\* a challenge was issued to a user whose counter stands at the lock
\* threshold and whose lock has run out
C23_Witness ==
    /\ last.op = "generate_captcha"
    /\ last.ret.error = "None"
    /\ failure_count(last.user_id) >= lockout_after_attempts
    /\ ~has_lock(last.user_id)
    /\ has_captcha(last.user_id)

----------------------------------------------------------------------------
(* C24 *)

\* the step is a call of verify_button_captcha for the user
submitted_token(user_id) ==
    last'.op = "verify_button_captcha" /\ last'.user_id = user_id

\* C24: while a lock_until in the future is stored for a user, neither
\* verify_captcha nor verify_button_captcha returns passed for that user, and
\* the lock is still stored after the call.
C24_NoPassWhileLocked ==
    [][\A u \in Users :
        ((submitted(u) \/ submitted_token(u)) /\ locked(u)) =>
            /\ ~last'.ret.passed
            /\ has_lock(u)']_vars

----------------------------------------------------------------------------
(* C25 *)

\* two calls of the same operation that have returned after reading the same
\* stored payload
duplicates(w1, w2) ==
    /\ w1 # w2
    /\ calls[w1].pc = "returned"
    /\ calls[w2].pc = "returned"
    /\ calls[w1].op = calls[w2].op
    /\ calls[w1].user_id = calls[w2].user_id
    /\ calls[w1].data # <<>>
    /\ calls[w1].data = calls[w2].data

\* the call ran to the comparison of what was submitted with the secret
compared(w) ==
    \/ calls[w].ret.passed
    \/ calls[w].ret.message \in MismatchReplies \cup {"Invalid verification token."}

\* the success rows of the history
success_rows == { i \in 1..Len(captcha_history) : captcha_history[i].success = 1 }

\* C25: of the concurrent submissions that read one stored challenge or token,
\* at most one passes, at most one has its answer compared with the secret,
\* and at most one success row is written.
C25_OnePassPerPayload ==
    \A w1, w2 \in Workers :
        duplicates(w1, w2) =>
            /\ ~(calls[w1].ret.passed /\ calls[w2].ret.passed)
            /\ ~(compared(w1) /\ compared(w2))
            /\ Cardinality(success_rows) <= 1

----------------------------------------------------------------------------
(* C26 *)

\* C26: when every call of is_user_verified, set_user_verified and
\* remove_user_verification has returned, a cached verified_ entry, if there
\* is one, equals the user's membership of verified_users.
C26_CacheAgreesWithLedger ==
    \A u \in Users :
        (quiescent /\ cache_has(cache, Key("verified_", u))) =>
            cache_get(cache, Key("verified_", u)) = (u \in verified_users)

----------------------------------------------------------------------------
(* C27 *)

\* C27: when generate_captcha answers "Failed to generate captcha" to a user
\* who is not locked, what is stored as the user's challenge and as the
\* user's button token is what was stored before the call.
C27_FailureStoresNothing ==
    [][\A u \in Users :
        (/\ issued(u)
         /\ ~locked(u)
         /\ last'.ret.error = "Failed to generate captcha") =>
            /\ entry(cache', captcha_key(u)) = entry(cache, captcha_key(u))
            /\ entry(cache', button_key(u)) = entry(cache, button_key(u))]_vars

=============================================================================
